---- MODULE Spec2Model ----
(***************************************************************************)
(* Job status polling of the NewsMinds frontend.                           *)
(*                                                                         *)
(* SourcesPage (and DashboardPage, whose polling code is the same) tracks  *)
(* the global collection job "*" with one pollRef; SourceTable, rendered   *)
(* by SourcesPage while it is not loading, tracks one job per source with  *)
(* a Map of interval handles.  Every await of the source is a request in   *)
(* flight: the server answers it in one step and the continuation of the   *)
(* handler runs in a later step.  A component instance that React has      *)
(* unmounted keeps its refs and closures, so its outstanding requests and  *)
(* any interval it arms afterwards stay in the model.                      *)
(***************************************************************************)
EXTENDS Naturals, FiniteSets, Bags

\* ---------------------------------------------------------------- bounds
MaxPages == 2       \* page instances that exist at once (one mounted)
MaxTables == 2      \* SourceTable instances that exist at once (one mounted)
MaxEvents == 3      \* clicks, navigations away and failing requests in one behaviour
MaxInFlight == 2    \* requests in flight when an event or a tick issues another
MaxCount == 2       \* outcome notifications of one run that are told apart

\* ------------------------------------------------------------- constants
Sources == {"s1", "s2"}
GlobalJob == "*"
Jobs == {GlobalJob} \cup Sources
Pages == 1..MaxPages
Tables == 1..MaxTables
\* enough handles for every ref of every instance to hold one
Handles == 1..(MaxPages + MaxTables * Cardinality(Sources))
NoStatus == [running |-> FALSE, result |-> FALSE, error |-> FALSE, run |-> 0]

VARIABLES
  location,      \* "app" | "login": window.location
  token,         \* the stored access token is present
  cur,           \* the mounted page instance, 0 when none is mounted
  isLoading,     \* [Pages -> BOOLEAN]  SourcesPage.isLoading
  isCollecting,  \* [Pages -> BOOLEAN]  SourcesPage.isCollecting
  pollRef,       \* [Pages -> Handles \cup {0}]  SourcesPage.pollRef.current
  curT,          \* the mounted SourceTable instance, 0 when none is mounted
  tOwner,        \* [Tables -> Pages \cup {0}]: the page whose fetchSources is onRefresh
  collectingIds, \* [Tables -> SUBSET Sources]  SourceTable.collectingIds
  pollRefs,      \* [Tables -> [Sources -> Handles \cup {0}]]  SourceTable.pollRefs.current
  timers,        \* armed intervals: set of [id, comp, inst, job]
  reqs,          \* bag of requests in flight: [op, comp, inst, job, resp]
  server,        \* [Jobs -> status]: the collection status the backend holds
  out,           \* the notifications the last step showed: set of [job, kind, run]
  delivered,     \* [Jobs -> 0..MaxCount]: outcome notifications of the job's latest run
  events         \* clicks, navigations away and failed requests so far

vars == <<location, token, cur, isLoading, isCollecting, pollRef, curT, tOwner,
          collectingIds, pollRefs, timers, reqs, server, out, delivered, events>>

\* The client-side state as one record, so that a handler is the composition
\* of the calls it makes.
Client == [location |-> location, token |-> token, cur |-> cur,
           isLoading |-> isLoading, isCollecting |-> isCollecting,
           pollRef |-> pollRef, curT |-> curT, tOwner |-> tOwner,
           collectingIds |-> collectingIds, pollRefs |-> pollRefs,
           timers |-> timers, reqs |-> reqs, out |-> {}, delivered |-> delivered]

\* An instance can be forgotten once nothing of it is left: no request whose
\* continuation closes over it and no interval whose callback does.
TableLive(w, t) ==
  \/ t = w.curT
  \/ \E r \in BagToSet(w.reqs) : r.comp = "table" /\ r.inst = t
  \/ \E h \in w.timers : h.comp = "table" /\ h.inst = t

Commit(w) ==
  /\ location' = w.location
  /\ token' = w.token
  /\ cur' = w.cur
  /\ isLoading' = w.isLoading
  /\ isCollecting' = w.isCollecting
  /\ pollRef' = w.pollRef
  /\ curT' = w.curT
  /\ tOwner' = [t \in Tables |-> IF TableLive(w, t) THEN w.tOwner[t] ELSE 0]
  /\ collectingIds' = w.collectingIds
  /\ pollRefs' = w.pollRefs
  /\ timers' = w.timers
  /\ reqs' = w.reqs
  /\ out' = w.out
  /\ delivered' = w.delivered

Req(op, comp, inst, job, kind, st) ==
  [op |-> op, comp |-> comp, inst |-> inst, job |-> job, resp |-> [kind |-> kind, st |-> st]]

Pending(op, comp, inst, job) == Req(op, comp, inst, job, "pending", NoStatus)

Send(w, r) == [w EXCEPT !.reqs = @ (+) SetToBag({r})]

Take(w, r) == [w EXCEPT !.reqs = @ (-) SetToBag({r})]

\* toast.success / toast.error / toast.info
toast(w, job, kind, run) ==
  [w EXCEPT !.out = @ \cup {[job |-> job, kind |-> kind, run |-> run]}]

\* setInterval returns a handle no armed interval has
ArmedIds(w) == {h.id : h \in w.timers}

NewHandle(w) == CHOOSE id \in Handles \ ArmedIds(w) :
                  \A other \in Handles \ ArmedIds(w) : id <= other

clearInterval(w, id) == [w EXCEPT !.timers = {h \in @ : h.id # id}]

setInterval(w, id, comp, inst, job) ==
  [w EXCEPT !.timers = @ \cup {[id |-> id, comp |-> comp, inst |-> inst, job |-> job]}]


\* a user event or a tick is explored while fewer than MaxInFlight requests are
\* in flight; a continuation always runs
Room == BagCardinality(reqs) < MaxInFlight

\* the user acts on the application while its document is the current one, and the
\* model issues no new request once the navigation to /login has begun
Interactive == location = "app" /\ Room

\* ------------------------------------------------- instances and rendering
PageLive(w, p) ==
  \/ p = w.cur
  \/ \E r \in BagToSet(w.reqs) : r.comp = "page" /\ r.inst = p
  \/ \E h \in w.timers : h.comp = "page" /\ h.inst = p
  \/ \E t \in Tables : TableLive(w, t) /\ w.tOwner[t] = p

FreeTables(w) == {t \in Tables : ~TableLive(w, t)}

FreePages(w) == {p \in Pages : ~PageLive(w, p)}

Least(S) == CHOOSE x \in S : \A y \in S : x <= y

\* SourceTable.stopPolling(sourceId)
T_stopPolling(w, t, s) ==
  LET interval == w.pollRefs[t][s]
  IN IF interval # 0
       THEN [clearInterval(w, interval) EXCEPT !.pollRefs[t][s] = 0]
       ELSE w

\* mutant: stopAllPolling resets the collecting state as well
T_stopAllPolling_ClearsBusy(w, t) ==
  [w EXCEPT !.timers = {h \in @ : h.id \notin {w.pollRefs[t][s] : s \in Sources}},
            !.pollRefs[t] = [s \in Sources |-> 0],
            !.collectingIds[t] = {}]

\* SourceTable.stopAllPolling()
T_stopAllPolling(w, t) ==
  [w EXCEPT !.timers = {h \in @ : h.id \notin {w.pollRefs[t][s] : s \in Sources}},
            !.pollRefs[t] = [s \in Sources |-> 0]]

\* mutant: startPolling clears every interval of the table, not the source's own
T_startPolling_StopAll(w, t, s) ==
  LET w1 == T_stopAllPolling(w, t)
      interval == NewHandle(w1)
  IN [setInterval(w1, interval, "table", t, s) EXCEPT !.pollRefs[t][s] = interval]

\* SourceTable.startPolling(sourceId): the interval's callback is tablePoll
T_startPolling(w, t, s) ==
  LET w1 == T_stopPolling(w, t, s)
      interval == NewHandle(w1)
  IN [setInterval(w1, interval, "table", t, s) EXCEPT !.pollRefs[t][s] = interval]

\* mutant: the table has no unmount cleanup
UnmountTable_NoCleanup(w) ==
  IF w.curT = 0 THEN w
  ELSE [w EXCEPT !.curT = 0, !.collectingIds[w.curT] = {}]

\* React unmounts the SourceTable: its effect cleanup runs and its state is gone
UnmountTable(w) ==
  IF w.curT = 0 THEN w
  ELSE [T_stopAllPolling(w, w.curT) EXCEPT !.curT = 0, !.collectingIds[w.curT] = {}]

\* React mounts a SourceTable: a new instance with empty state and refs
MountTable(w) ==
  LET t == Least(FreeTables(w))
  IN [w EXCEPT !.curT = t, !.tOwner[t] = w.cur, !.collectingIds[t] = {},
               !.pollRefs[t] = [s \in Sources |-> 0]]

\* SourcesPage renders <SourceTable> exactly while it is mounted and not loading
TableWanted(w) == w.cur # 0 /\ ~w.isLoading[w.cur]

CanRender(w) == (TableWanted(w) /\ w.curT = 0) => FreeTables(w) # {}

Render(w) ==
  IF TableWanted(w)
    THEN IF w.curT = 0 THEN MountTable(w) ELSE w
    ELSE UnmountTable(w)

\* a state setter of an unmounted component does nothing
setIsCollecting(w, p, v) == IF p = w.cur THEN [w EXCEPT !.isCollecting[p] = v] ELSE w

setIsLoading(w, p, v) == IF p = w.cur THEN Render([w EXCEPT !.isLoading[p] = v]) ELSE w

setCollectingIds(w, t, ids) == IF t = w.curT THEN [w EXCEPT !.collectingIds[t] = ids] ELSE w

\* mutant: the interval is cleared but the ref keeps the handle
stopPolling_KeepRef(w, p) ==
  IF w.pollRef[p] # 0 THEN clearInterval(w, w.pollRef[p]) ELSE w

\* SourcesPage.stopPolling()
stopPolling(w, p) ==
  IF w.pollRef[p] # 0
    THEN [clearInterval(w, w.pollRef[p]) EXCEPT !.pollRef[p] = 0]
    ELSE w

\* SourcesPage.startPolling(): the interval's callback is pagePoll
startPolling(w, p) ==
  LET w1 == stopPolling(w, p)
      interval == NewHandle(w1)
  IN [setInterval(w1, interval, "page", p, GlobalJob) EXCEPT !.pollRef[p] = interval]

\* SourcesPage.fetchSources() up to its await; ListDone is the rest
fetchSources(w, p) ==
  Send(setIsLoading(w, p, TRUE), Pending("list", "page", p, GlobalJob))

\* request(): the 401 branch clears the token and assigns window.location.href
\* before it throws
Redirect(w) == [w EXCEPT !.token = FALSE, !.location = "login"]

\* the document of the application is gone: no component, interval or continuation
Unloaded(w) ==
  /\ w.cur = 0 /\ w.curT = 0 /\ w.timers = {} /\ w.reqs = EmptyBag
  /\ \A p \in Pages : w.pollRef[p] = 0
  /\ \A t \in Tables : \A s \in Sources : w.pollRefs[t][s] = 0

\* ------------------------------------------------------------------ Init
Init ==
  /\ location = "app"
  /\ token = TRUE
  /\ cur = 0
  /\ isLoading = [p \in Pages |-> TRUE]
  /\ isCollecting = [p \in Pages |-> FALSE]
  /\ pollRef = [p \in Pages |-> 0]
  /\ curT = 0
  /\ tOwner = [t \in Tables |-> 0]
  /\ collectingIds = [t \in Tables |-> {}]
  /\ pollRefs = [t \in Tables |-> [s \in Sources |-> 0]]
  /\ timers = {}
  /\ reqs = EmptyBag
  /\ server = [j \in Jobs |-> NoStatus]
  /\ out = {}
  /\ delivered = [j \in Jobs |-> 0]
  /\ events = 0

\* the continuation of a request runs once its response is there; the responses of
\* GET /sources/ and of create / delete carry nothing the handlers read, so such
\* a request that has not failed is answered when it is delivered
Answered(r) ==
  /\ r \in BagToSet(reqs)
  /\ r.resp.kind # "pending" \/ r.op \in {"list", "crud"}

Outcome(r) == IF r.resp.kind = "pending" THEN [r.resp EXCEPT !.kind = "ok"] ELSE r.resp

Outstanding(op) == {r \in BagToSet(reqs) : r.op = op}

\* ---------------------------------------------------------------- server
\* a step of the backend or the network: no handler of the client runs
ClientIdle ==
  /\ out' = {}
  /\ UNCHANGED <<location, token, cur, isLoading, isCollecting, pollRef, curT, tOwner,
                 collectingIds, pollRefs, timers>>

Answer(r, resp) == (reqs (-) SetToBag({r})) (+) SetToBag({[r EXCEPT !.resp = resp]})

\* POST /collection/collect-all and /collection/collect/{id}: the backend runs one
\* collection per job at a time; a start while one runs is refused or has no effect
ServerStart(r) ==
  /\ r \in Outstanding("start") /\ r.resp.kind = "pending"
  /\ \/ /\ ~server[r.job].running
        /\ server' = [server EXCEPT ![r.job] =
                        [running |-> TRUE, result |-> FALSE, error |-> FALSE,
                         run |-> @.run + 1]]
        /\ delivered' = [delivered EXCEPT ![r.job] = 0]
        /\ reqs' = Answer(r, [r.resp EXCEPT !.kind = "ok"])
     \/ /\ server[r.job].running
        /\ \E k \in {"ok", "err"} : reqs' = Answer(r, [r.resp EXCEPT !.kind = k])
        /\ UNCHANGED <<server, delivered>>
  /\ ClientIdle
  /\ UNCHANGED events

\* what GET /collection/status or /collection/status/{id} answers now
StatusNow(r) == [kind |-> "ok", st |-> server[r.job]]

\* A status response that the continuation ignores whatever the client's state is
\* when it arrives: running=true for a tick, running=false for checkStatus.
Inert(r, resp) ==
  /\ resp.kind = "ok"
  /\ resp.st.running = (r.op = "poll")

\* the backend answers a status request; the response travels back
ServerStatus(r) ==
  /\ r \in Outstanding("probe") \cup Outstanding("poll") /\ r.resp.kind = "pending"
  /\ ~Inert(r, StatusNow(r))
  /\ reqs' = Answer(r, StatusNow(r))
  /\ ClientIdle
  /\ UNCHANGED <<server, delivered, events>>

\* a request fails: the network drops it or the backend answers an error status
Fault(r, k) ==
  /\ r \in BagToSet(reqs) /\ r.resp.kind = "pending"
  /\ events < MaxEvents
  /\ k \in {"err", "401"}
  /\ events' = events + 1
  /\ reqs' = Answer(r, [r.resp EXCEPT !.kind = k])
  /\ ClientIdle
  /\ UNCHANGED <<server, delivered>>

\* the collection job ends on the backend
ServerFinish(j, res, err) ==
  /\ server[j].running
  /\ server' = [server EXCEPT ![j] = [@ EXCEPT !.running = FALSE, !.result = res,
                                                 !.error = err]]
  /\ ClientIdle
  /\ UNCHANGED <<reqs, delivered, events>>

\* ------------------------------------------------------------------ user
\* the navigation to /login that request() started replaces the document: every
\* component, interval and continuation of the application goes with it
Unload ==
  /\ location = "login" /\ ~Unloaded(Client)
  /\ Commit([Client EXCEPT !.cur = 0, !.curT = 0,
                            !.isLoading = [p \in Pages |-> TRUE],
                            !.isCollecting = [p \in Pages |-> FALSE],
                            !.pollRef = [p \in Pages |-> 0],
                            !.collectingIds = [t \in Tables |-> {}],
                            !.pollRefs = [t \in Tables |-> [s \in Sources |-> 0]],
                            !.timers = {}, !.reqs = EmptyBag])
  /\ UNCHANGED <<server, events>>

\* the login form stores a new token and routes to the dashboard
Login ==
  /\ location = "login" /\ Unloaded(Client)
  /\ location' = "app" /\ token' = TRUE /\ out' = {}
  /\ UNCHANGED <<cur, isLoading, isCollecting, pollRef, curT, tOwner, collectingIds,
                 pollRefs, timers, reqs, server, delivered, events>>

\* the mount effect of the page: fetchSources(); checkStatus() up to its await
MountEffect(w, p) ==
  Send(fetchSources(w, p), Pending("probe", "page", p, GlobalJob))

\* the router mounts the page: a new instance, isLoading true, isCollecting false
MountPage ==
  /\ token /\ cur = 0
  /\ Interactive
  /\ FreePages(Client) # {}
  /\ LET p == Least(FreePages(Client))
         w == [Client EXCEPT !.cur = p, !.isLoading[p] = TRUE,
                             !.isCollecting[p] = FALSE, !.pollRef[p] = 0]
     IN Commit(MountEffect(w, p))
  /\ UNCHANGED <<server, events>>

\* mutant: the mount effect returns no cleanup
PageCleanup_Nothing(w, p) == w

\* the cleanup of the page's mount effect
PageCleanup(w, p) == stopPolling(w, p)

\* the user navigates to another route: the page and its SourceTable unmount
UnmountPage ==
  /\ location = "app" /\ cur # 0
  /\ events < MaxEvents
  /\ events' = events + 1
  /\ LET p == cur
         w1 == PageCleanup(UnmountTable(Client), p)
     IN Commit([w1 EXCEPT !.cur = 0, !.isLoading[p] = TRUE, !.isCollecting[p] = FALSE])
  /\ UNCHANGED server

\* mutant: the button is not disabled while collecting
CollectAllEnabled_NotDisabled(p) == p # 0 /\ p = cur /\ ~isLoading[p]

\* the "Collect All" button is rendered when not loading, disabled while collecting
CollectAllEnabled(p) == p # 0 /\ p = cur /\ ~isLoading[p] /\ ~isCollecting[p]


\* SourcesPage.handleCollectAll up to its await
ClickCollectAll ==
  /\ CollectAllEnabled(cur)
  /\ events < MaxEvents
  /\ Interactive
  /\ events' = events + 1
  /\ Commit(Send(setIsCollecting(Client, cur, TRUE),
                 Pending("start", "page", cur, GlobalJob)))
  /\ UNCHANGED server

\* the row's collect button is disabled while the source is in collectingIds
CollectEnabled(t, s) == t # 0 /\ t = curT /\ s \notin collectingIds[t]

\* SourceTable.handleCollect up to its await
ClickCollect(s) ==
  /\ CollectEnabled(curT, s)
  /\ events < MaxEvents
  /\ Interactive
  /\ events' = events + 1
  /\ Commit(Send(setCollectingIds(Client, curT, collectingIds[curT] \cup {s}),
                 Pending("start", "table", curT, s)))
  /\ UNCHANGED server

\* handleCreate of the page, handleUpdate / handleDelete of the table, up to the await
ClickCrud(comp) ==
  /\ events < MaxEvents
  /\ Interactive
  /\ curT # 0
  /\ events' = events + 1
  /\ Commit(Send(Client, Pending("crud", comp, IF comp = "page" THEN cur ELSE curT,
                                 GlobalJob)))
  /\ UNCHANGED server

\* ----------------------------------------------------------------- timers
\* an armed interval fires: its callback runs up to the await of the status fetch
Tick(h) ==
  /\ h \in timers
  /\ Interactive
  /\ Commit(Send(Client, Pending("poll", h.comp, h.inst, h.job)))
  /\ UNCHANGED <<server, events>>


\* ---------------------------------------------------------- continuations
\* mutant: the result is looked at before the error
notify_ResultFirst(w, job, st) ==
  LET n == IF st.run = server[job].run /\ w.delivered[job] < MaxCount
             THEN w.delivered[job] + 1 ELSE w.delivered[job]
      w1 == IF st.error \/ st.result THEN [w EXCEPT !.delivered[job] = n] ELSE w
  IN IF st.result THEN toast(w1, job, "success", st.run)
     ELSE IF st.error THEN toast(w1, job, "failure", st.run)
     ELSE w1

\* mutant: whatever is not an error is reported as a success
notify_ElseSuccess(w, job, st) ==
  LET n == IF st.run = server[job].run /\ w.delivered[job] < MaxCount
             THEN w.delivered[job] + 1 ELSE w.delivered[job]
      w1 == [w EXCEPT !.delivered[job] = n]
  IN IF st.error THEN toast(w1, job, "failure", st.run)
     ELSE toast(w1, job, "success", st.run)

\* the branches on status.error / status.result of both interval callbacks
notify(w, job, st) ==
  LET n == IF st.run = server[job].run /\ w.delivered[job] < MaxCount
             THEN w.delivered[job] + 1 ELSE w.delivered[job]
      w1 == IF st.error \/ st.result THEN [w EXCEPT !.delivered[job] = n] ELSE w
  IN IF st.error THEN toast(w1, job, "failure", st.run)
     ELSE IF st.result THEN toast(w1, job, "success", st.run)
     ELSE w1

\* request() throws after a 401 once it has cleared the token and assigned
\* window.location.href; the caller's catch block runs like for any other error
After(kind, w) == IF kind = "401" THEN Redirect(w) ELSE w

\* mutant: the probe arms polling whatever the status says
checkStatus_AlwaysPolls(w, p, resp) ==
  IF resp.kind = "ok"
    THEN startPolling(setIsCollecting(w, p, TRUE), p)
    ELSE w

\* checkStatus of the mount effect, after its await
checkStatus(w, p, resp) ==
  IF resp.kind = "ok" /\ resp.st.running
    THEN startPolling(setIsCollecting(w, p, TRUE), p)
    ELSE w

\* the response of a status request as its continuation gets it: the one that
\* travels back, or an inert one, whose answer and arrival are one step
Arrives(r, resp) ==
  /\ r \in BagToSet(reqs)
  /\ IF r.resp.kind = "pending"
       THEN resp = StatusNow(r) /\ Inert(r, resp)
       ELSE resp = r.resp

ProbeDone(r) ==
  /\ r \in Outstanding("probe")
  /\ \E resp \in {r.resp, StatusNow(r)} :
       /\ Arrives(r, resp)
       /\ Commit(After(resp.kind, checkStatus(Take(Client, r), r.inst, resp)))
  /\ UNCHANGED <<server, events>>

\* SourcesPage.handleCollectAll, after its await
handleCollectAll(w, p, resp) ==
  IF resp.kind = "ok"
    THEN startPolling(toast(w, GlobalJob, "started", 0), p)
    ELSE setIsCollecting(toast(w, GlobalJob, "startFailed", 0), p, FALSE)

\* mutant: a failed start reports the error and leaves the row busy
handleCollect_StaysBusy(w, t, s, resp) ==
  IF resp.kind = "ok"
    THEN T_startPolling(toast(w, s, "started", 0), t, s)
    ELSE toast(w, s, "startFailed", 0)

\* SourceTable.handleCollect, after its await
handleCollect(w, t, s, resp) ==
  IF resp.kind = "ok"
    THEN T_startPolling(toast(w, s, "started", 0), t, s)
    ELSE setCollectingIds(toast(w, s, "startFailed", 0), t, w.collectingIds[t] \ {s})

StartDone(r) ==
  /\ Answered(r) /\ r.op = "start"
  /\ LET w == Take(Client, r)
     IN Commit(After(r.resp.kind,
                     IF r.comp = "page" THEN handleCollectAll(w, r.inst, r.resp)
                     ELSE handleCollect(w, r.inst, r.job, r.resp)))
  /\ UNCHANGED <<server, events>>

\* mutant: the terminal branch leaves isCollecting set
pagePoll_KeepBusy(w, p, resp) ==
  IF resp.kind = "ok" /\ ~resp.st.running
    THEN fetchSources(notify(stopPolling(w, p), GlobalJob, resp.st), p)
    ELSE w

\* mutant: a failed status fetch ends the polling
pagePoll_StopOnError(w, p, resp) ==
  IF resp.kind = "ok"
    THEN IF ~resp.st.running
           THEN fetchSources(notify(setIsCollecting(stopPolling(w, p), p, FALSE),
                                    GlobalJob, resp.st), p)
           ELSE w
    ELSE setIsCollecting(stopPolling(w, p), p, FALSE)

\* the interval callback of SourcesPage.startPolling, after its await
pagePoll(w, p, resp) ==
  IF resp.kind = "ok" /\ ~resp.st.running
    THEN fetchSources(notify(setIsCollecting(stopPolling(w, p), p, FALSE),
                             GlobalJob, resp.st), p)
    ELSE w

\* mutant: the callback gives up after a response that says running=true
tablePoll_GivesUp(w, t, s, resp) ==
  IF resp.kind = "ok"
    THEN LET w1 == T_stopPolling(w, t, s)
             w2 == setCollectingIds(w1, t, w1.collectingIds[t] \ {s})
         IN IF resp.st.running THEN w2
            ELSE fetchSources(notify(w2, s, resp.st), w.tOwner[t])
    ELSE w

\* mutant: a failed status fetch is reported to the user
tablePoll_ToastOnError(w, t, s, resp) ==
  IF resp.kind = "ok"
    THEN IF ~resp.st.running
           THEN LET w1 == T_stopPolling(w, t, s)
                    w2 == setCollectingIds(w1, t, w1.collectingIds[t] \ {s})
                IN fetchSources(notify(w2, s, resp.st), w.tOwner[t])
           ELSE w
    ELSE toast(w, s, "pollFailed", 0)

\* the interval callback of SourceTable.startPolling, after its await
tablePoll(w, t, s, resp) ==
  IF resp.kind = "ok" /\ ~resp.st.running
    THEN LET w1 == T_stopPolling(w, t, s)
             w2 == setCollectingIds(w1, t, w1.collectingIds[t] \ {s})
         IN fetchSources(notify(w2, s, resp.st), w.tOwner[t])
    ELSE w

PollDone(r) ==
  /\ r \in Outstanding("poll")
  /\ \E resp \in {r.resp, StatusNow(r)} :
       /\ Arrives(r, resp)
       /\ LET w == Take(Client, r)
          IN Commit(After(resp.kind,
                          IF r.comp = "page" THEN pagePoll(w, r.inst, resp)
                          ELSE tablePoll(w, r.inst, r.job, resp)))
  /\ UNCHANGED <<server, events>>

\* SourcesPage.fetchSources, after its await
listDone(w, p, resp) ==
  setIsLoading(IF resp.kind = "ok" THEN w ELSE toast(w, GlobalJob, "loadFailed", 0),
               p, FALSE)

ListDone(r) ==
  /\ Answered(r) /\ r.op = "list"
  /\ LET w == Take(Client, r)
     IN /\ r.inst = cur => CanRender([w EXCEPT !.isLoading[r.inst] = FALSE])
        /\ Commit(After(r.resp.kind, listDone(w, r.inst, Outcome(r))))
  /\ UNCHANGED <<server, events>>

\* SourcesPage.handleCreate and SourceTable.handleDelete, after their await
crudDone(w, comp, inst, resp) ==
  IF resp.kind = "ok"
    THEN fetchSources(toast(w, GlobalJob, "saved", 0),
                      IF comp = "page" THEN inst ELSE w.tOwner[inst])
    ELSE IF comp = "table" THEN toast(w, GlobalJob, "deleteFailed", 0) ELSE w

CrudDone(r) ==
  /\ Answered(r) /\ r.op = "crud"
  /\ Commit(After(r.resp.kind, crudDone(Take(Client, r), r.comp, r.inst, Outcome(r))))
  /\ UNCHANGED <<server, events>>

\* ------------------------------------------------------------------ Next
Next ==
  \/ Login
  \/ Unload
  \/ MountPage
  \/ UnmountPage
  \/ ClickCollectAll
  \/ \E s \in Sources : ClickCollect(s)
  \/ \E comp \in {"page", "table"} : ClickCrud(comp)
  \/ \E h \in timers : Tick(h)
  \/ \E r \in BagToSet(reqs) : ServerStart(r)
  \/ \E r \in BagToSet(reqs) : ServerStatus(r)
  \/ \E r \in BagToSet(reqs), k \in {"err", "401"} : Fault(r, k)
  \/ \E j \in Jobs, res \in BOOLEAN : ServerFinish(j, res, ~res)
  \/ \E r \in BagToSet(reqs) : ProbeDone(r)
  \/ \E r \in BagToSet(reqs) : StartDone(r)
  \/ \E r \in BagToSet(reqs) : PollDone(r)
  \/ \E r \in BagToSet(reqs) : ListDone(r)
  \/ \E r \in BagToSet(reqs) : CrudDone(r)

Spec == Init /\ [][Next]_vars

\* The scheduling the runtime and the backend guarantee: an armed interval keeps
\* firing, a request is answered, a settled promise runs its continuation, and a
\* running collection ends.  Nothing obliges the user to act or a request to fail.
Fairness ==
  /\ \A j \in Jobs : SF_vars(\E h \in timers : h.job = j /\ Tick(h))
  /\ WF_vars(\E r \in BagToSet(reqs) : ServerStart(r) \/ ServerStatus(r))
  /\ WF_vars(\E r \in BagToSet(reqs) :
               ProbeDone(r) \/ StartDone(r) \/ PollDone(r) \/ ListDone(r) \/ CrudDone(r))
  /\ \A j \in Jobs : WF_vars(\E res \in BOOLEAN : ServerFinish(j, res, ~res))
  /\ WF_vars(Unload)

FairSpec == Spec /\ Fairness

\* The backend no longer knows job j (its status record is lost, as after a
\* restart): the status endpoint answers running=false with no result and no
\* error, as for a job that was never started.  run is kept: it only tells the
\* runs of the model apart.
ServerForget(j) ==
  /\ server[j] # [NoStatus EXCEPT !.run = server[j].run]
  /\ events < MaxEvents
  /\ events' = events + 1
  /\ server' = [server EXCEPT ![j] = [NoStatus EXCEPT !.run = server[j].run]]
  /\ ClientIdle
  /\ UNCHANGED <<reqs, delivered>>

\* the application with a backend whose terminal status may carry a result and an
\* error at once, or neither
NextAnyStatus ==
  \/ Next
  \/ \E j \in Jobs, both \in BOOLEAN : ServerFinish(j, both, both)

SpecAnyStatus == Init /\ [][NextAnyStatus]_vars

NextUnknown ==
  \/ Next
  \/ \E j \in Jobs : ServerForget(j)

\* the application with a backend that may lose the status of a job
SpecUnknown == Init /\ [][NextUnknown]_vars

\* ============================================================== properties
\* the armed intervals that poll job j
Armed(j) == {h \in timers : h.job = j}

\* the busy flag of job j as the mounted components hold it
Busy(j) ==
  IF j = GlobalJob THEN cur # 0 /\ isCollecting[cur]
  ELSE curT # 0 /\ j \in collectingIds[curT]

\* the mounted component issued request r
OfMounted(r) == IF r.comp = "page" THEN r.inst = cur ELSE r.inst = curT

\* the status fetches that the callback of interval h has in flight
PollsInFlight(h) ==
  LET S == {r \in BagToSet(reqs) : r.op = "poll" /\ r.comp = h.comp /\ r.inst = h.inst
                                                  /\ r.job = h.job}
  IN BagCardinality([r \in S |-> reqs[r]])

\* this step issues a start request for job j
StartIssued(j) ==
  \E r \in BagToSet(reqs') :
    /\ r.op = "start" /\ r.job = j /\ r.resp.kind = "pending"
    /\ CopiesIn(r, reqs') > CopiesIn(r, reqs)

\* this step is the continuation of a start request for job j
StartContinues(j) == \E r \in Outstanding("start") : r.job = j /\ StartDone(r)

\* this step is the continuation of a start request that failed
StartFails(r) ==
  r \in Outstanding("start") /\ r.resp.kind \in {"err", "401"} /\ StartDone(r)

\* this step is the continuation of a status fetch of an interval that failed
PollFails(r, kinds) == r \in Outstanding("poll") /\ r.resp.kind \in kinds /\ PollDone(r)

\* this step is a tick's continuation that sees running=false for job j
Settles(j) ==
  \E r \in Outstanding("poll") :
    r.job = j /\ r.resp.kind = "ok" /\ ~r.resp.st.running /\ PollDone(r)

\* C1: in every reachable state each JobId, the global one and every source's,
\* has at most one armed polling timer.
C1_AtMostOneTimer == \A j \in Jobs : Cardinality(Armed(j)) <= 1

\* C2: the terminal outcome of a run is notified to the user at most once, however
\* many status responses with the terminal status are processed.
C2_OutcomeOnce == \A j \in Jobs : delivered[j] <= 1

OwnTimers(r) ==
  {h \in timers : h.comp = r.comp /\ h.inst = r.inst /\ h.job = r.job}

\* C4: when the start request of the mounted component fails, the step that
\* handles the failure reports it, and afterwards that component has no timer
\* armed for the JobId and its busy flag is clear.
C4_StartFailureLeavesIdle ==
  [][\A r \in BagToSet(reqs) :
       (StartFails(r) /\ OfMounted(r)) =>
         /\ \E n \in out' : n.kind = "startFailed" /\ n.job = r.job
         /\ OwnTimers(r)' = {}
         /\ ~Busy(r.job)']_vars

C6_GlobalSettleKeepsSource ==
  [][\A s \in Sources :
       (Settles(GlobalJob) /\ Busy(s) /\ Armed(s) # {}) =>
         (Armed(s)' = Armed(s) /\ Busy(s)')]_vars

Visible == <<location, token, cur, curT, isLoading, isCollecting, collectingIds,
             delivered>>

\* C8 as stated: a failed status fetch of whatever kind shows no notification and
\* leaves page and session state as they were.
C8_FailedPollInvisible ==
  [][\A r \in BagToSet(reqs) :
       PollFails(r, {"err", "401"}) => (out' = {} /\ Visible' = Visible)]_vars

\* C8 amended: a status fetch that fails with a network error or an HTTP error
\* status other than 401 shows no notification and leaves page and session state
\* as they were.
C8_FailedPollInvisibleUnless401 ==
  [][\A r \in BagToSet(reqs) :
       PollFails(r, {"err"}) => (out' = {} /\ Visible' = Visible)]_vars

\* C8 witness: a status fetch of a mounted component failed with an error other
\* than 401 and its continuation is about to run.
C8_Witness ==
  \E r \in Outstanding("poll") : r.resp.kind = "err" /\ OfMounted(r) /\ location = "app"

\* C9: the ticks of a timer are sequential: an armed timer never has more than one
\* status fetch outstanding.
C9_TicksSequential == \A h \in timers : PollsInFlight(h) <= 1

\* C10: the continuation of a status fetch whose component was torn down, and its
\* timer cleared, while the fetch was in flight changes no busy flag, shows no
\* outcome and triggers no refresh.
C10_CancelledFetchDiscarded ==
  [][\A r \in Outstanding("poll") :
       (PollDone(r) /\ ~OfMounted(r) /\ OwnTimers(r) = {}) =>
         /\ out' = {} /\ delivered' = delivered
         /\ isCollecting' = isCollecting /\ collectingIds' = collectingIds
         /\ isLoading' = isLoading
         /\ reqs' = reqs (-) SetToBag({r})]_vars

\* the mounted component that tracks job j: the page for the global job, the
\* SourceTable for a source
Tracker(j) ==
  IF j = GlobalJob THEN [comp |-> "page", inst |-> cur]
  ELSE [comp |-> "table", inst |-> curT]

\* the intervals in set T that component instance c armed for job j
TimersIn(T, c, j) == {h \in T : h.job = j /\ h.comp = c.comp /\ h.inst = c.inst}

\* the armed intervals of component instance c that poll job j
TimersOf(c, j) == TimersIn(timers, c, j)

\* the mounted component polls job j
Polled(j) == Tracker(j).inst # 0 /\ TimersOf(Tracker(j), j) # {}

\* an outcome notification of job j
Outcomes(j) == {n \in out : n.job = j /\ n.kind \in {"success", "failure"}}

\* this step cancels the polling of job j: the component that tracks it unmounts
\* (its cleanup runs stopPolling / stopAllPolling) and no tick settles j
Cancels(j) ==
  /\ Tracker(j).inst # 0
  /\ Tracker(j)'.inst # Tracker(j).inst
  /\ ~Settles(j)

\* C11: a step that cancels the polling of a JobId whose job is busy and polled
\* releases the timer, leaves the busy flag clear and delivers no outcome of
\* that JobId.
C11_CancelIsSilent ==
  [][\A j \in Jobs :
       (Cancels(j) /\ Busy(j) /\ Polled(j)) =>
         /\ TimersIn(timers', Tracker(j), j) = {}
         /\ ~Busy(j)'
         /\ Outcomes(j)' = {}
         /\ delivered'[j] = delivered[j]]_vars

\* C11 witness: a job that runs on the server is busy and polled by the mounted
\* component, and the user can navigate away.
C11_Witness ==
  \E j \in Jobs :
    Busy(j) /\ Polled(j) /\ server[j].running /\ location = "app" /\ events < MaxEvents

\* the response that the continuation of status request r gets
Seen(r) == IF r.resp.kind = "pending" THEN StatusNow(r) ELSE r.resp

\* a status that tells of no run: not running, no result, no error
Unknown(st) == ~st.running /\ ~st.result /\ ~st.error

\* this step is the continuation of status request r, of the mount probe or a tick
StatusDone(r) == ProbeDone(r) \/ PollDone(r)

\* C12: a status of running=false with neither result nor error delivers no
\* outcome; seen by the mount probe it changes no timer and no busy flag, seen by
\* a tick it leaves the component's timer released and the busy flag clear.
C12_IdleOnUnknown ==
  [][\A r \in Outstanding("probe") \cup Outstanding("poll") :
       (StatusDone(r) /\ Seen(r).kind = "ok" /\ Unknown(Seen(r).st)) =>
         /\ Outcomes(r.job)' = {}
         /\ delivered' = delivered
         /\ r.op = "probe" =>
              (timers' = timers /\ isCollecting' = isCollecting)
         /\ r.op = "poll" =>
              (OwnTimers(r)' = {} /\ (OfMounted(r) => ~Busy(r.job)'))]_vars

\* C12 witness: a tick of the mounted component has fetched a status with neither
\* result nor error while the job is busy and polled.
C12_Witness ==
  \E r \in Outstanding("poll") :
    /\ r.resp.kind = "ok" /\ Unknown(r.resp.st)
    /\ OfMounted(r) /\ Busy(r.job) /\ OwnTimers(r) # {}

\* the number of mount probes in flight in bag b
Probes(b) ==
  LET S == {r \in BagToSet(b) : r.op = "probe"}
  IN BagCardinality([r \in S |-> b[r]])

\* this step mounts a page
Mounts == cur = 0 /\ cur' # 0

\* C13: a mount issues exactly one probe and no other step issues one; the
\* continuation of a probe issues no start request; when the probe says
\* running=true the mounted page becomes busy with its timer armed; when it says
\* running=false or fails, no timer and no busy flag changes and nothing is shown.
C13_ResumeIfRunning ==
  [][/\ Probes(reqs') <= Probes(reqs) + (IF Mounts THEN 1 ELSE 0)
     /\ Mounts => Probes(reqs') = Probes(reqs) + 1
     /\ \A r \in Outstanding("probe") :
          ProbeDone(r) =>
            /\ \A j \in Jobs : ~StartIssued(j)
            /\ out' = {}
            /\ IF Seen(r).kind = "ok" /\ Seen(r).st.running
                 THEN /\ OwnTimers(r)' # {}
                      /\ OfMounted(r) => Busy(r.job)'
                 ELSE /\ timers' = timers /\ pollRef' = pollRef
                      /\ isCollecting' = isCollecting]_vars

\* C13 witness: the probe of the mounted, idle page has been answered
\* running=true and its continuation is about to run.
C13_Witness ==
  \E r \in Outstanding("probe") :
    /\ r.resp.kind = "ok" /\ r.resp.st.running
    /\ OfMounted(r) /\ ~Busy(r.job) /\ OwnTimers(r) = {}

\* the handle that the ref of interval h's component holds for h's job
RefOf(h) == IF h.comp = "page" THEN pollRef[h.inst] ELSE pollRefs[h.inst][h.job]

\* every armed interval is the one its component's ref holds, so that it can be
\* released, and every handle a ref holds is armed, so that no stopPolling
\* releases a handle a second time
RefsExact ==
  /\ \A h \in timers : RefOf(h) = h.id
  /\ \A p \in Pages : pollRef[p] # 0 =>
       [id |-> pollRef[p], comp |-> "page", inst |-> p, job |-> GlobalJob] \in timers
  /\ \A t \in Tables : \A s \in Sources : pollRefs[t][s] # 0 =>
       [id |-> pollRefs[t][s], comp |-> "table", inst |-> t, job |-> s] \in timers

\* C14: on every exit path of a JobId's polling the armed handle is released
\* exactly once: after a tick that sees running=false and after a cancel or
\* teardown the component has no timer armed and holds no handle for the JobId,
\* and no ref ever holds a handle that was released already.
C14_ReleasedExactlyOnce ==
  [][/\ RefsExact'
     /\ \A r \in Outstanding("poll") :
          (PollDone(r) /\ Seen(r).kind = "ok" /\ ~Seen(r).st.running) =>
            (OwnTimers(r)' = {} /\ RefOf(r)' = 0)
     /\ \A j \in Jobs :
          (Tracker(j).inst # 0 /\ Tracker(j)'.inst # Tracker(j).inst) =>
            TimersIn(timers', Tracker(j), j) = {}]_vars

\* C14 witness: the mounted component holds the handle of its armed timer and a
\* tick has fetched the terminal status that will release it.
C14_Witness ==
  \E h \in timers : \E r \in Outstanding("poll") :
    /\ RefOf(h) = h.id /\ h \in OwnTimers(r) /\ OfMounted(r)
    /\ r.resp.kind = "ok" /\ ~r.resp.st.running
    /\ r.resp.st.result \/ r.resp.st.error

\* C15: the tick that sees running=false for a JobId stops the JobId's polling:
\* after that step no timer is armed for the JobId, so no further status fetch is
\* issued for it until polling is armed again.
C15_FirstSettleStopsTimer ==
  [][\A j \in Jobs : Settles(j) => Armed(j)' = {}]_vars

\* C16: a run that the mounted component tracks (busy, timer armed, the job
\* running on the server) eventually shows its outcome to the user, unless the
\* user leaves the page or the session ends.
C16_OutcomeEventuallyDelivered ==
  \A j \in Jobs :
    (Busy(j) /\ Polled(j) /\ server[j].running)
      ~> (Outcomes(j) # {} \/ cur = 0 \/ location = "login")

\* C17: the tick of the mounted component that sees the terminal status leaves
\* the JobId idle again (busy flag clear, timer released), so that its start
\* control is enabled; and the continuation of a start request that succeeded
\* arms a timer of its component for the JobId.
C17_RestartAfterSettle ==
  [][/\ \A r \in Outstanding("poll") :
          (PollDone(r) /\ Seen(r).kind = "ok" /\ ~Seen(r).st.running /\ OfMounted(r)) =>
            (~Busy(r.job)' /\ OwnTimers(r)' = {})
     /\ \A r \in Outstanding("start") :
          (StartDone(r) /\ r.resp.kind = "ok") => OwnTimers(r)' # {}]_vars

\* C17 witness: with two clicks and nothing else the same JobId has run twice and
\* the outcome of its second run is shown.
C17_Witness ==
  \E j \in Jobs :
    /\ events = 2 /\ server[j].run = 2
    /\ \E n \in Outcomes(j) : n.run = 2

\* the phase of job j that the mounted components show: Idle when the busy flag
\* is clear, Running when it is set and the timer is armed, Starting otherwise
Phase(j) ==
  IF ~Busy(j) THEN "Idle"
  ELSE IF Polled(j) THEN "Running"
  ELSE "Starting"

\* this step is the continuation of a start request for job j that succeeded
StartSucceeds(j) ==
  \E r \in Outstanding("start") : r.job = j /\ r.resp.kind = "ok" /\ StartDone(r)

\* this step is the continuation of a mount probe for job j that says running=true
Resumes(j) ==
  \E r \in Outstanding("probe") :
    r.job = j /\ Seen(r).kind = "ok" /\ Seen(r).st.running /\ ProbeDone(r)

\* C18: while the page stays mounted the phase of a JobId changes only from Idle
\* to Starting on a start, from Starting to Running when the start request
\* succeeds, from Starting to Idle when it fails, from Idle to Running on a probe
\* that says running=true, and from Running to Idle on a tick that sees the
\* terminal status or on a cancel.
C18_PhaseEdges ==
  [][\A j \in Jobs :
       (cur # 0 /\ cur' = cur /\ Phase(j)' # Phase(j)) =>
         \/ Phase(j) = "Idle" /\ Phase(j)' = "Starting" /\ StartIssued(j)
         \/ Phase(j) = "Starting" /\ Phase(j)' = "Running" /\ StartSucceeds(j)
         \/ Phase(j) = "Starting" /\ Phase(j)' = "Idle"
              /\ \E r \in BagToSet(reqs) : r.job = j /\ StartFails(r)
         \/ Phase(j) = "Idle" /\ Phase(j)' = "Running" /\ Resumes(j)
         \/ Phase(j) = "Running" /\ Phase(j)' = "Idle" /\ (Settles(j) \/ Cancels(j))]_vars

\* C19: while a start request of the mounted component is outstanding, that
\* component has no timer armed for the JobId and no status fetch of a tick in
\* flight for it.
C19_StartBeforeArm ==
  \A r \in Outstanding("start") :
    OfMounted(r) => (OwnTimers(r) = {} /\ PollsInFlight(r) = 0)

\* C20: once the tracking component of a JobId is mounted and no request is in
\* flight any more, a job that runs on the server is shown busy and is polled.
C20_ResumeCoversEveryJob ==
  \A j \in Jobs :
    (Tracker(j).inst # 0 /\ reqs = EmptyBag /\ server[j].running) =>
      (Busy(j) /\ Polled(j))

\* the outcome notification that a terminal status st of job j stands for
OutcomeOf(j, st) ==
  IF st.error THEN {[job |-> j, kind |-> "failure", run |-> st.run]}
  ELSE IF st.result THEN {[job |-> j, kind |-> "success", run |-> st.run]}
  ELSE {}

\* C21: the outcome that the tick's continuation shows for a status with
\* running=false is determined by the status alone: a failure when error is
\* populated, also together with a result, a success when only result is
\* populated, nothing when neither is.
C21_OutcomeFromStatus ==
  [][\A r \in Outstanding("poll") :
       (PollDone(r) /\ Seen(r).kind = "ok" /\ ~Seen(r).st.running) =>
         Outcomes(r.job)' = OutcomeOf(r.job, Seen(r).st)]_vars

\* C21 witness: a tick has fetched a terminal status that carries both a result
\* and an error.
C21_Witness ==
  \E r \in Outstanding("poll") :
    r.resp.kind = "ok" /\ ~r.resp.st.running /\ r.resp.st.result /\ r.resp.st.error

\* C22: stopPolling and stopAllPolling called when the component holds no handle
\* change nothing (no timer, no busy flag, nothing shown), and calling one of
\* them twice in a row leaves the same state as calling it once.
C22_CancelNoOpIdempotent ==
  /\ \A p \in Pages :
       /\ pollRef[p] = 0 => stopPolling(Client, p) = Client
       /\ stopPolling(stopPolling(Client, p), p) = stopPolling(Client, p)
  /\ \A t \in Tables :
       /\ \A s \in Sources :
            /\ pollRefs[t][s] = 0 => T_stopPolling(Client, t, s) = Client
            /\ T_stopPolling(T_stopPolling(Client, t, s), t, s) = T_stopPolling(Client, t, s)
       /\ (\A s \in Sources : pollRefs[t][s] = 0) => T_stopAllPolling(Client, t) = Client
       /\ T_stopAllPolling(T_stopAllPolling(Client, t), t) = T_stopAllPolling(Client, t)

\* C22 witness: the mounted table holds no handle while one of its sources is
\* busy and the page's timer is armed, so a cancel there has something to spoil.
C22_Witness ==
  /\ curT # 0 /\ collectingIds[curT] # {}
  /\ \A s \in Sources : pollRefs[curT][s] = 0
  /\ Polled(GlobalJob)

\* C23: a step that unmounts the SourceTable (its cleanup is stopAllPolling)
\* leaves no timer of that table armed and its map of handles empty, and shows no
\* outcome of a source unless the step is the tick that settles that source.
C23_CancelAllReleasesAll ==
  [][(curT # 0 /\ curT' # curT) =>
       /\ \A h \in timers' : ~(h.comp = "table" /\ h.inst = curT)
       /\ \A s \in Sources : pollRefs'[curT][s] = 0
       /\ \A s \in Sources :
            ~Settles(s) => (Outcomes(s)' = {} /\ delivered'[s] = delivered[s])]_vars

\* C23 witness: the mounted table polls every source at once.
C23_Witness == curT # 0 /\ \A s \in Sources : Polled(s)

\* the component instance that armed interval h is the mounted one and unmounts
\* in this step
Unmounts(h) ==
  IF h.comp = "page" THEN h.inst = cur /\ cur' # cur
  ELSE h.inst = curT /\ curT' # curT

\* C24: nothing but a running=false response, a cancel or a teardown ends the
\* polling: the continuation of a tick whose response says running=true leaves
\* every timer armed, and a component's polling of a JobId ends only in a step in
\* which its own tick sees running=false, the component unmounts, or the document
\* is unloaded.
C24_NoMaximumDuration ==
  [][/\ \A r \in Outstanding("poll") :
          (PollDone(r) /\ Seen(r).kind = "ok" /\ Seen(r).st.running) => timers' = timers
     /\ \A h \in timers :
          TimersIn(timers', h, h.job) = {} =>
            \/ \E r \in Outstanding("poll") :
                 /\ r.comp = h.comp /\ r.inst = h.inst /\ r.job = h.job
                 /\ Seen(r).kind = "ok" /\ ~Seen(r).st.running /\ PollDone(r)
            \/ Unmounts(h)
            \/ Unload]_vars

\* C24 witness: a tick of the mounted component is answered running=true while
\* its timer is armed.
C24_Witness ==
  \E r \in Outstanding("poll") :
    /\ OfMounted(r) /\ OwnTimers(r) # {}
    /\ Seen(r).kind = "ok" /\ Seen(r).st.running

\* the component instance that armed interval h is still mounted
OwnerMounted(h) == IF h.comp = "page" THEN h.inst = cur ELSE h.inst = curT

\* C25: once a component instance is torn down no timer of it is armed in any
\* later state: every armed timer belongs to the mounted page or the mounted table.
C25_NoTimerAfterTeardown == \A h \in timers : OwnerMounted(h)

\* status response r was produced during an earlier run of its job than the run
\* the backend is executing now
Stale(r) ==
  /\ r.resp.kind = "ok"
  /\ r.resp.st.run < server[r.job].run
  /\ server[r.job].running

\* C26: a status response of an earlier run is never applied to a later run: when
\* no start is outstanding and every armed timer belongs to a mounted component,
\* the tick continuation of the mounted component that handles such a response
\* leaves the later run's timer armed and its busy flag as it was, and reports no
\* outcome.
C26_StaleResponseNotApplied ==
  [][\A r \in Outstanding("poll") :
       (/\ PollDone(r) /\ OfMounted(r) /\ Stale(r)
        /\ Outstanding("start") = {} /\ \A h \in timers : OwnerMounted(h)) =>
          /\ TimersIn(timers', r, r.job) = OwnTimers(r)
          /\ Busy(r.job)' = Busy(r.job)
          /\ Outcomes(r.job)' = {}]_vars

\* a start request for job j of the mounted component has not been handled yet
StartOutstanding(j) ==
  \E r \in Outstanding("start") : r.job = j /\ OfMounted(r)

\* C27: while its component is mounted a busy flag never stands alone: a JobId
\* shown busy has a start request outstanding or a timer armed.
C27_BusyHasStartOrTimer ==
  \A j \in Jobs : Busy(j) => (StartOutstanding(j) \/ Polled(j))

\* C27 witness: a job is shown busy on the strength of its armed timer alone.
C27_Witness ==
  \E j \in Jobs : Busy(j) /\ Polled(j) /\ ~StartOutstanding(j) /\ server[j].running

\* C28: whenever a timer of a mounted component is armed for a JobId, the busy
\* flag of that JobId is set.
C28_TimerImpliesBusy == \A j \in Jobs : Polled(j) => Busy(j)

\* this step makes the mounted page reload its list: fetchSources() runs, after a
\* create, update or delete, or after the settlement of a job
Refreshes ==
  /\ cur # 0 /\ cur' = cur
  /\ \E r \in BagToSet(reqs') :
       /\ r.op = "list" /\ r.comp = "page" /\ r.inst = cur
       /\ CopiesIn(r, reqs') > CopiesIn(r, reqs)

\* C29: a reload of the list leaves the polling of every source as it was: each
\* source that does not settle in the step keeps its armed timer and its busy flag.
C29_RefreshKeepsPolling ==
  [][Refreshes =>
       \A s \in Sources :
         ~Settles(s) =>
           /\ TimersIn(timers', Tracker(s), s) = TimersOf(Tracker(s), s)
           /\ Busy(s)' = Busy(s)]_vars

====
